---- MODULE Spec2Model ----
(***************************************************************************)
(* Nexora frontend, modelled as state machines: the planet App             *)
(* (frontend/vite.config.ts, lines 45-536) with its determineDatasetType,  *)
(* the galaxy App (unnamed/part_000) and the ResultsMap component with its *)
(* planar layout (unnamed/part_001, unnamed/part_002).                     *)
(* One action per React handler or render; an action includes the effects  *)
(* React flushes after the handler's state updates.                        *)
(***************************************************************************)
EXTENDS Integers, Sequences, FiniteSets, TLC

(* ------------------------------ bounds --------------------------------- *)
\* search requests issued over one run of the planet App
MaxRequests == 2
\* successive camera lerps (planet clicks) between two camera resets
MaxLerps == 1
\* frames one animate loop of the galaxy App renders
MaxTicks == 2
\* datasets on the list ResultsMap lays out
MaxNodes == 5
\* words of the content determineDatasetType is called with
MaxWords == 2
\* requests one run of the Landing page starts
MaxSubmits == 2
\* runs of the load effect of the Results page
MaxLoads == 3
\* New search actions on the Results page
MaxResets == 2
\* preview requests the clicks on the Analysis page start
MaxPreviews == 3
\* requests of /generate-plots one QuickPlots starts
MaxGenerations == 2

(* -------------------------- program constants -------------------------- *)
\* camera.position.set(0, 0, 75)
HomeZ == 75
\* cameraRef.current.position.set(0, 0, 100)
OverviewZ == 100
\* const radius = 40
PlanetRadius == 40
\* (idx % 3) * 5
IdxStep == 5
\* geometries and materials one planet is built from
PerPlanet == 4
\* starsGeometry and starsMaterial of the init effect
SceneResources == 2
\* galaxy App, one run of the scene effect: envMap, starsGeometry, starsMaterial,
\* lineMaterial and glowTexture
GSceneResources == 5
\* galaxy App, cleanup of the scene effect: starsGeometry and starsMaterial
GSceneDisposed == 2

(* ------------------------------ inputs --------------------------------- *)
\* search results the backend can return (TavilySearchOutput records)
Datasets == {"d1", "d2"}
\* data.results of a response: every list of distinct results
ResultLists == {s \in UNION {[1..k -> Datasets] : k \in 0..Cardinality(Datasets)} :
                  \A i, j \in DOMAIN s : i # j => s[i] # s[j]}
\* text of the search input, as a sequence of characters
Queries == {<< >>, <<" ">>, <<"a">>}
\* Math.random() * 15, two of its values
RandomJitter == {0, 10}
\* failure of a fetch: non-OK status, or a rejected fetch
Failures == {"HTTP", "NETWORK"}
\* galaxy App: the analyses the backend can list (AnalysisItem records)
Analyses == {"a1", "a2"}
\* galaxy App: data.analyses of a response, every list of distinct analyses
AnalysisLists == {s \in UNION {[1..k -> Analyses] : k \in 0..Cardinality(Analyses)} :
                    \A i, j \in DOMAIN s : i # j => s[i] # s[j]}
\* galaxy App: failure of the fetch of /analyses
GFailures == {"HTTP", "NETWORK", "NONJSON"}
\* ResultsMap: ids of datasets; "" is a dataset whose id and source_url are empty
LayoutIds == {"ds-56", "kaggle/1215", "hf/1067", "ds-5", ""}
\* ResultsMap: the datasets prop, every list of distinct datasets
LayoutLists == {s \in UNION {[1..k -> LayoutIds] : k \in 0..MaxNodes} :
                  \A i, j \in DOMAIN s : i # j => s[i] # s[j]}
\* ResultsMap: viewport.width and viewport.height of the canvas
Viewports == {<<1000, 800>>, <<800, 1000>>, <<2000, 400>>, <<400, 2000>>}
\* Landing: bodies of an OK response of /run-agent
RunResults == {"r1", "r2"}
\* Results: runPayload?.dataset_ids || [] of a run payload
Payloads == {<< >>, <<"d1">>, <<"d2", "d1">>}
\* Analysis: dataset.files of a response of /dataset, as lists of file paths
FileLists ==
  {<< >>, <<<<"a", ".", "c", "s", "v">>>>,
   <<<<"a", ".", "c", "s", "v">>, <<"B", ".", "c", "s", "v">>>>,
   <<<<"b", ".", "t", "x", "t">>, <<"B", ".", "c", "s", "v">>, <<"a", ".", "c", "s", "v">>>>}
\* Analysis: the ?file= parameter of the URL; << >> when there is none
FileParams == {<< >>, <<"B", ".", "c", "s", "v">>}
\* Analysis: text of the file-search input
FileSearches == {<< >>, <<"b">>, <<"A">>}
\* QuickPlots: result.plots of a response of /generate-plots
GeneratedLists ==
  {<< >>, <<"g1">>, <<"g1", "g2">>, <<"g1", "g2", "g3">>,
   <<"g1", "g2", "g3", "g4", "g5">>}
\* ResultsMap: the two variants of the file
Variants == {"part_001", "part_002"}

VARIABLES
  uiState, searchQuery, searchResults, selectedPlanet, isSearching, error,
  planets, listener, camera, lerps, animationId, rafPending,
  mounted, rendererDisposed, useAfterDispose, created, disposed,
  inflight, reqSeq, buildSeq, appliedReq, completedOk, lastEvent,
  lastHits,
  gItems, gLoading, gError, gFetch, gMounted, gTicks, gCleaned, gCreated,
  gDisposed, gUseAfterDispose,
  lVariant, lDatasets, lViewport, lLayout, lPrev,
  eContent, eType,
  nRoute, nQuery, nLoading, nError, nStage, nPending, nSeq, nNavState, nLastEvent,
  rMounted, rPayload, rDatasets, rLoading, rError, rLoads, rLoadSeq, rLatest,
  rResetting, rResets, rResetSeq, rNavs, rLastEvent,
  aLoad, aLoading, aError, aFiles, aActiveIdx, aSearch, aPreview,
  aPreviewLoading, aPending, aSeq, aClicked, aLastEvent,
  qProps, qIndex, qGenerated, qShow, qIsGenerating, qError, qPending, qSeq,
  qLastEvent

\* the Landing page (frontend/src/pages/Landing.tsx)
landingVars == << nRoute, nQuery, nLoading, nError, nStage, nPending, nSeq,
                  nNavState, nLastEvent >>

\* the Results page (unnamed/part_003, frontend/src/main.tsx)
resultsVars == << rMounted, rPayload, rDatasets, rLoading, rError, rLoads, rLoadSeq,
                  rLatest, rResetting, rResets, rResetSeq, rNavs, rLastEvent >>

\* the Analysis page (frontend/src/pages/Analysis.tsx)
analysisVars == << aLoad, aLoading, aError, aFiles, aActiveIdx, aSearch, aPreview,
                   aPreviewLoading, aPending, aSeq, aClicked, aLastEvent >>

\* the QuickPlots component (frontend/src/components/QuickPlots.tsx)
quickVars == << qProps, qIndex, qGenerated, qShow, qIsGenerating, qError, qPending,
                qSeq, qLastEvent >>

galaxyVars == << gItems, gLoading, gError, gFetch, gMounted, gTicks, gCleaned,
                 gCreated, gDisposed, gUseAfterDispose >>

vars == << uiState, searchQuery, searchResults, selectedPlanet, isSearching,
           error, planets, listener, camera, lerps, animationId, rafPending,
           mounted, rendererDisposed, useAfterDispose, created,
           disposed, inflight, reqSeq, buildSeq, appliedReq, completedOk,
           lastEvent, lastHits, gItems, gLoading, gError, gFetch, gMounted, gTicks,
           gCleaned, gCreated, gDisposed, gUseAfterDispose,
           lVariant, lDatasets, lViewport, lLayout, lPrev, eContent, eType,
           landingVars, resultsVars, analysisVars, quickVars >>

\* the ResultsMap component (unnamed/part_001, unnamed/part_002)
layoutVars == << lVariant, lDatasets, lViewport, lLayout, lPrev >>

\* one call of determineDatasetType
encoderVars == << eContent, eType >>

\* the state of the planet App, without the record of the last event
planetState == << uiState, searchQuery, searchResults, selectedPlanet, isSearching,
                  error, planets, listener, camera, lerps, animationId, rafPending,
                  mounted, rendererDisposed, useAfterDispose, created, disposed,
                  inflight, reqSeq, buildSeq, appliedReq, completedOk >>

planetVars == << planetState, lastEvent, lastHits >>

\* what the handlers of the planet App leave alone
notPlanet == << galaxyVars, layoutVars, encoderVars, landingVars, resultsVars,
               analysisVars, quickVars >>

\* what the handlers of the galaxy App leave alone
notGalaxy == << planetVars, layoutVars, encoderVars, landingVars, resultsVars,
               analysisVars, quickVars >>

\* what the renders of ResultsMap leave alone
notLayout == << planetVars, galaxyVars, encoderVars, landingVars, resultsVars,
               analysisVars, quickVars >>

\* what a call of determineDatasetType leaves alone
notEncoder == << planetVars, galaxyVars, layoutVars, landingVars, resultsVars,
                analysisVars, quickVars >>

\* what the handlers of the Landing page leave alone
notLanding == << planetVars, galaxyVars, layoutVars, encoderVars, resultsVars,
                analysisVars, quickVars >>

\* what the handlers of the Results page leave alone
notResults == << planetVars, galaxyVars, layoutVars, encoderVars, landingVars,
                analysisVars, quickVars >>

\* what the handlers of the Analysis page leave alone
notAnalysis == << planetVars, galaxyVars, layoutVars, encoderVars, landingVars,
                 resultsVars, quickVars >>

\* what the handlers of QuickPlots leave alone
notQuick == << planetVars, galaxyVars, layoutVars, encoderVars, landingVars,
              resultsVars, analysisVars >>

(* ------------------------------ helpers -------------------------------- *)
Range(s) == {s[i] : i \in DOMAIN s}

\* selectedPlanet = null
NoPlanet == [id |-> -1, result |-> "none", position |-> <<0, 0, 0>>, mesh |-> <<0, 0>>]

\* error = null
NoError == "null"

RECURSIVE TrimLeft(_)
TrimLeft(s) == IF s # << >> /\ Head(s) = " " THEN TrimLeft(Tail(s)) ELSE s

RECURSIVE TrimRight(_)
TrimRight(s) ==
  IF s # << >> /\ s[Len(s)] = " " THEN TrimRight(SubSeq(s, 1, Len(s) - 1)) ELSE s

\* String.prototype.trim
Trim(s) == TrimRight(TrimLeft(s))

\* sin(phi)cos(theta), sin(phi)sin(theta), cos(phi) in thousandths, for
\* theta = 2 pi idx/n and phi = acos(2 idx/n - 1); idx counts from 0
Direction(idx, n) ==
  CASE idx = 0 -> <<0, 0, -1000>>
    [] n = 2 /\ idx = 1 -> <<-1000, 0, 0>>
    [] n = 3 /\ idx = 1 -> <<-471, 816, -333>>
    [] n = 3 /\ idx = 2 -> <<-471, -816, 333>>
    [] n = 4 /\ idx = 1 -> <<0, 866, -500>>
    [] n = 4 /\ idx = 2 -> <<-1000, 0, 0>>
    [] n = 4 /\ idx = 3 -> <<0, -866, 500>>
    [] OTHER -> <<0, 0, 1000>>

Scale(v, num, den) == <<(v[1] * num) \div den, (v[2] * num) \div den, (v[3] * num) \div den>>

\* spherical placement of result idx of n, with rnd = Math.random() * 15;
\* coordinates are whole scene units, rounded down
PlanetPosition(idx, n, rnd) ==
  Scale(Direction(idx, n), PlanetRadius + rnd + (idx % 3) * IdxStep, 1000)

\* Vector3.lerp(target, 0.1), in whole scene units
Lerp(c, t) == <<c[1] + (t[1] - c[1]) \div 10, c[2] + (t[2] - c[2]) \div 10,
                c[3] + (t[3] - c[3]) \div 10>>

Dist2(a, b) == (a[1] - b[1]) * (a[1] - b[1]) + (a[2] - b[2]) * (a[2] - b[2])
               + (a[3] - b[3]) * (a[3] - b[3])

\* the intersected planet that was created first
LowestIndex(hits) == CHOOSE i \in hits : \A j \in hits : i <= j

\* intersects[0]: the raycaster sorts the intersections by distance
Nearest(hits) ==
  CHOOSE i \in hits : \A j \in hits :
    \/ Dist2(camera, planets[i].position) < Dist2(camera, planets[j].position)
    \/ /\ Dist2(camera, planets[i].position) = Dist2(camera, planets[j].position)
       /\ i <= j

(* ------------------------------- Init ---------------------------------- *)
\* the planet App after its first render and the first run of its effects
PlanetInit ==
  /\ uiState = "landing"
  /\ searchQuery = << >>
  /\ searchResults = << >>
  /\ selectedPlanet = NoPlanet
  /\ isSearching = FALSE
  /\ error = NoError
  /\ planets = << >>
  /\ listener = FALSE
  /\ camera = <<0, 0, HomeZ>>
  /\ lerps = 0
  /\ animationId = 1
  /\ rafPending = TRUE
  /\ mounted = TRUE
  /\ rendererDisposed = FALSE
  /\ useAfterDispose = FALSE
  /\ created = SceneResources
  /\ disposed = 0
  /\ inflight = {}
  /\ reqSeq = 0
  /\ buildSeq = 0
  /\ appliedReq = 0
  /\ completedOk = {}
  /\ lastEvent = "mount"
  /\ lastHits = {}

(* ---------------------- effects of the planet App ----------------------- *)
\* the planets built from a result list: one DatasetPlanet per result
BuildPlanets(results, rnd, gen) ==
  [i \in 1..Len(results) |->
     [id |-> i - 1, result |-> results[i],
      position |-> PlanetPosition(i - 1, Len(results), rnd[i]),
      mesh |-> <<gen, i - 1>>]]

\* the effect keyed on searchResults that creates the planets; it returns
\* before touching anything when the result list is empty
PlanetsEffect(results, rnd) ==
  IF Len(results) = 0
  THEN UNCHANGED <<planets, created, buildSeq>>
  ELSE /\ planets' = BuildPlanets(results, rnd, buildSeq + 1)
       /\ created' = created + PerPlanet * Len(results)
       /\ buildSeq' = buildSeq + 1

\* the effect keyed on searchResults that registers handleClick on the canvas
ClickEffect == listener' = (Len(planets') > 0)

(* ---------------------- handlers of the planet App ---------------------- *)
\* handleSearch up to the await of fetch
handleSearch ==
  IF Trim(searchQuery) = << >>
  THEN UNCHANGED planetState
  ELSE /\ reqSeq < MaxRequests
       /\ isSearching' = TRUE
       /\ error' = NoError
       /\ reqSeq' = reqSeq + 1
       /\ inflight' = inflight \cup {reqSeq + 1}
       /\ UNCHANGED <<uiState, searchQuery, searchResults, selectedPlanet, planets,
                      listener, camera, lerps, animationId, rafPending,
                      mounted, rendererDisposed, useAfterDispose, created, disposed,
                      buildSeq, appliedReq, completedOk>>

\* handleSearch after the await, response OK: try body and finally, then the
\* effects keyed on searchResults; the planets effect ends by moving the camera
\* to the overview when it has built planets
searchResolved(r, data, rnd) ==
  /\ searchResults' = data
  /\ uiState' = "results"
  /\ isSearching' = FALSE
  /\ inflight' = inflight \ {r}
  /\ appliedReq' = r
  /\ completedOk' = completedOk \cup {r}
  /\ PlanetsEffect(data, rnd)
  /\ ClickEffect
  /\ IF Len(data) = 0
     THEN UNCHANGED <<camera, lerps>>
     ELSE camera' = <<0, 0, OverviewZ>> /\ lerps' = 0
  /\ UNCHANGED <<searchQuery, selectedPlanet, error, animationId, rafPending,
                 mounted, rendererDisposed, useAfterDispose, disposed, reqSeq>>

\* searchRejected with the failure folded into an empty result view
searchRejectedFolded(r, kind) ==
  /\ error' = kind
  /\ isSearching' = FALSE
  /\ inflight' = inflight \ {r}
  /\ uiState' = "results"
  /\ UNCHANGED <<searchQuery, searchResults, selectedPlanet, planets,
                 listener, camera, lerps, animationId, rafPending, mounted,
                 rendererDisposed, useAfterDispose, created, disposed, reqSeq,
                 buildSeq, appliedReq, completedOk>>

\* handleSearch after the await, fetch rejected or response not OK: catch and finally
searchRejected(r, kind) ==
  /\ error' = kind
  /\ isSearching' = FALSE
  /\ inflight' = inflight \ {r}
  /\ UNCHANGED <<uiState, searchQuery, searchResults, selectedPlanet, planets,
                 listener, camera, lerps, animationId, rafPending, mounted,
                 rendererDisposed, useAfterDispose, created, disposed, reqSeq,
                 buildSeq, appliedReq, completedOk>>

\* handleClick with an else branch that goes back to the results on a miss
handleClickMissDeselects(hits) ==
  IF hits = {}
  THEN /\ selectedPlanet' = NoPlanet
       /\ uiState' = "results"
       /\ UNCHANGED <<searchQuery, searchResults, isSearching, error, planets,
                      listener, camera, lerps, animationId, rafPending, mounted,
                      rendererDisposed, useAfterDispose, created, disposed, inflight,
                      reqSeq, buildSeq, appliedReq, completedOk>>
  ELSE /\ lerps < MaxLerps
       /\ selectedPlanet' = planets[Nearest(hits)]
       /\ uiState' = "detail"
       /\ camera' = Lerp(camera, Scale(planets[Nearest(hits)].position, 15, 10))
       /\ lerps' = lerps + 1
       /\ UNCHANGED <<searchQuery, searchResults, isSearching, error, planets,
                      listener, animationId, rafPending, mounted,
                      rendererDisposed, useAfterDispose, created, disposed, inflight,
                      reqSeq, buildSeq, appliedReq, completedOk>>

\* handleClick with the ray intersecting the meshes of the planets in hits
handleClick(hits) ==
  IF hits = {}
  THEN UNCHANGED planetState
  ELSE /\ lerps < MaxLerps
       /\ selectedPlanet' = planets[Nearest(hits)]
       /\ uiState' = "detail"
       /\ camera' = Lerp(camera, Scale(planets[Nearest(hits)].position, 15, 10))
       /\ lerps' = lerps + 1
       /\ UNCHANGED <<searchQuery, searchResults, isSearching, error, planets,
                      listener, animationId, rafPending, mounted,
                      rendererDisposed, useAfterDispose, created, disposed, inflight,
                      reqSeq, buildSeq, appliedReq, completedOk>>

\* handleBackToResults without setSelectedPlanet(null)
handleBackKeepsSelection ==
  /\ uiState' = "results"
  /\ camera' = <<0, 0, OverviewZ>>
  /\ lerps' = 0
  /\ UNCHANGED <<searchQuery, searchResults, selectedPlanet, isSearching, error,
                 planets, listener, animationId, rafPending, mounted,
                 rendererDisposed, useAfterDispose, created, disposed, inflight,
                 reqSeq, buildSeq, appliedReq, completedOk>>

handleBackToResults ==
  /\ selectedPlanet' = NoPlanet
  /\ uiState' = "results"
  /\ camera' = <<0, 0, OverviewZ>>
  /\ lerps' = 0
  /\ UNCHANGED <<searchQuery, searchResults, isSearching, error, planets, listener,
                 animationId, rafPending, mounted, rendererDisposed,
                 useAfterDispose, created, disposed, inflight, reqSeq, buildSeq,
                 appliedReq, completedOk>>

handleBackToLanding ==
  /\ searchResults' = << >>
  /\ selectedPlanet' = NoPlanet
  /\ uiState' = "landing"
  /\ searchQuery' = << >>
  /\ camera' = <<0, 0, HomeZ>>
  /\ lerps' = 0
  /\ appliedReq' = 0
  /\ PlanetsEffect(<< >>, << >>)
  /\ ClickEffect
  /\ UNCHANGED <<isSearching, error, animationId, rafPending, mounted,
                 rendererDisposed, useAfterDispose, disposed, inflight, reqSeq,
                 completedOk>>

\* one run of the animate callback: render, then request the next frame and store
\* its id (1 stands for any id; the rotation angles are not part of the state)
animate ==
  /\ animationId' = 1
  /\ useAfterDispose' = (useAfterDispose \/ rendererDisposed)
  /\ UNCHANGED <<uiState, searchQuery, searchResults, selectedPlanet, isSearching,
                 error, planets, listener, camera, lerps, rafPending, mounted,
                 rendererDisposed, created, disposed, inflight, reqSeq, buildSeq,
                 appliedReq, completedOk>>

\* cleanup of the init effect and of the click effect
cleanup ==
  /\ mounted' = FALSE
  /\ rafPending' = (IF animationId # 0 THEN FALSE ELSE rafPending)
  /\ rendererDisposed' = TRUE
  /\ disposed' = disposed + SceneResources
  /\ listener' = FALSE
  /\ UNCHANGED <<uiState, searchQuery, searchResults, selectedPlanet, isSearching,
                 error, planets, camera, lerps, animationId, useAfterDispose,
                 created, inflight, reqSeq, buildSeq, appliedReq, completedOk>>

(* ----------------------- actions of the planet App ---------------------- *)
\* onChange of the search input
SetQuery ==
  /\ mounted /\ uiState = "landing"
  /\ \E q \in Queries \ {searchQuery} :
       /\ searchQuery' = q
       /\ UNCHANGED <<uiState, searchResults, selectedPlanet, isSearching, error,
                      planets, listener, camera, lerps, animationId, rafPending,
                      mounted, rendererDisposed, useAfterDispose, created,
                      disposed, inflight, reqSeq, buildSeq, appliedReq, completedOk>>
  /\ lastEvent' = "setQuery" /\ lastHits' = {}
  /\ UNCHANGED notPlanet

\* onKeyPress of the search input with the Enter key
SubmitEnter ==
  /\ mounted /\ uiState = "landing"
  /\ handleSearch
  /\ lastEvent' = "submit" /\ lastHits' = {}
  /\ UNCHANGED notPlanet

\* onClick of the Explore button, disabled while isSearching
SubmitButton ==
  /\ mounted /\ uiState = "landing" /\ ~isSearching
  /\ handleSearch
  /\ lastEvent' = "submit" /\ lastHits' = {}
  /\ UNCHANGED notPlanet

SearchOk ==
  /\ mounted
  /\ \E r \in inflight : \E data \in ResultLists :
       \E rnd \in [1..Len(data) -> RandomJitter] : searchResolved(r, data, rnd)
  /\ lastEvent' = "searchOk" /\ lastHits' = {}
  /\ UNCHANGED notPlanet

SearchFail ==
  /\ mounted
  /\ \E r \in inflight : \E kind \in Failures : searchRejected(r, kind)
  /\ lastEvent' = "searchFail" /\ lastHits' = {}
  /\ UNCHANGED notPlanet

Click ==
  /\ mounted /\ listener
  /\ \E hits \in SUBSET (DOMAIN planets) : handleClick(hits) /\ lastHits' = hits
  /\ lastEvent' = "click"
  /\ UNCHANGED notPlanet

BackToResults ==
  /\ mounted /\ uiState = "detail" /\ selectedPlanet # NoPlanet
  /\ handleBackToResults
  /\ lastEvent' = "backToResults" /\ lastHits' = {}
  /\ UNCHANGED notPlanet

BackToLanding ==
  /\ mounted /\ uiState = "results"
  /\ handleBackToLanding
  /\ lastEvent' = "backToLanding" /\ lastHits' = {}
  /\ UNCHANGED notPlanet

\* onClick of the close button of the error overlay
ErrorClose ==
  /\ mounted /\ error # NoError
  /\ error' = NoError
  /\ UNCHANGED <<uiState, searchQuery, searchResults, selectedPlanet, isSearching,
                 planets, listener, camera, lerps, animationId, rafPending,
                 mounted, rendererDisposed, useAfterDispose, created, disposed,
                 inflight, reqSeq, buildSeq, appliedReq, completedOk>>
  /\ lastEvent' = "errorClose" /\ lastHits' = {}
  /\ UNCHANGED notPlanet

Frame == rafPending /\ animate /\ lastEvent' = "frame" /\ lastHits' = {} /\ UNCHANGED notPlanet

Unmount == mounted /\ cleanup /\ lastEvent' = "unmount" /\ lastHits' = {} /\ UNCHANGED notPlanet

(* ------------------------------ galaxy App ------------------------------ *)
\* BufferGeometry objects of the "faint connections" loop for n sprites, with
\* the draws of mulberry32(42) that follow the 3n draws of the placement
LineCount(n) ==
  CASE n = 0 -> 0
    [] n = 1 -> 0
    [] n = 2 -> 2
    [] n = 3 -> 1
    [] OTHER -> 3

\* geometries, materials and textures one run of the scene effect creates
GCreatedBy(list) == GSceneResources + Len(list) + LineCount(Len(list))

\* the galaxy App after its first render and the first run of its effects:
\* the fetch of /analyses is pending, and the scene effect has run for items = []
GalaxyInit ==
  /\ gItems = << >>
  /\ gLoading = TRUE
  /\ gError = NoError
  /\ gFetch = "pending"
  /\ gMounted = TRUE
  /\ gTicks = <<0>>
  /\ gCleaned = 0
  /\ gCreated = GCreatedBy(<< >>)
  /\ gDisposed = 0
  /\ gUseAfterDispose = FALSE

\* cleanup of the scene effect: disposes renderer, starsGeometry, starsMaterial;
\* it cancels no animation frame
GCleanup ==
  /\ gCleaned' = Len(gTicks)
  /\ gDisposed' = gDisposed + GSceneDisposed

\* the scene effect keyed on items, run again after setItems: the cleanup of the
\* previous run, then a new renderer, scene and animate loop
GSceneEffect(list) ==
  /\ GCleanup
  /\ gTicks' = Append(gTicks, 0)
  /\ gCreated' = gCreated + GCreatedBy(list)

\* fetchAnalyses, response OK with a JSON body (or an empty body: data = null)
GFetchOk ==
  /\ gMounted /\ gFetch = "pending"
  /\ \E list \in AnalysisLists :
       /\ gItems' = list
       /\ GSceneEffect(list)
  /\ gLoading' = FALSE
  /\ gFetch' = "done"
  /\ UNCHANGED <<gError, gMounted, gUseAfterDispose>>
  /\ UNCHANGED notGalaxy

\* fetchAnalyses, fetch rejected, response not OK, or body not JSON
GFetchFail ==
  /\ gMounted /\ gFetch = "pending"
  /\ \E kind \in GFailures : gError' = kind
  /\ gLoading' = FALSE
  /\ gFetch' = "done"
  /\ UNCHANGED <<gItems, gMounted, gTicks, gCleaned, gCreated, gDisposed,
                 gUseAfterDispose>>
  /\ UNCHANGED notGalaxy

\* one run of the animate callback of the k-th run of the scene effect: it
\* renders with that run's renderer and requests the next frame
GFrame ==
  /\ \E k \in DOMAIN gTicks :
       /\ gTicks[k] < MaxTicks
       /\ gTicks' = [gTicks EXCEPT ![k] = @ + 1]
       /\ gUseAfterDispose' = (gUseAfterDispose \/ k <= gCleaned)
  /\ UNCHANGED <<gItems, gLoading, gError, gFetch, gMounted, gCleaned, gCreated,
                 gDisposed>>
  /\ UNCHANGED notGalaxy

\* unmount of the galaxy App
GUnmount ==
  /\ gMounted
  /\ gMounted' = FALSE
  /\ GCleanup
  /\ UNCHANGED <<gItems, gLoading, gError, gFetch, gTicks, gCreated,
                 gUseAfterDispose>>
  /\ UNCHANGED notGalaxy

NextGalaxy ==
  \/ GFetchOk
  \/ GFetchFail
  \/ GFrame
  \/ GUnmount

(* ------------------- ResultsMap: the planar layout ---------------------- *)
\* lengths are thousandths of a scene unit, factors are thousandths
Mul(a, perMille) == (a * perMille) \div 1000

Max(a, b) == IF a >= b THEN a ELSE b

RECURSIVE CeilSqrtFrom(_, _, _)
\* the least whole k >= from with k * k >= num / den
CeilSqrtFrom(from, num, den) ==
  IF from * from * den >= num THEN from ELSE CeilSqrtFrom(from + 1, num, den)

\* Math.ceil(Math.sqrt(n * aspect)) with aspect = usableW / usableH
Cols(n, usableW, usableH) == CeilSqrtFrom(0, n * usableW, usableH)

\* Math.max(1, Math.floor(n / cols))
RowsShort(n, cols) == Max(1, n \div cols)

\* Math.ceil(n / cols)
Rows(n, cols) == (n + cols - 1) \div cols

\* the first two draws of the generator seededRandom(seed) returns, in
\* thousandths, rounded down
seededRandom(seed) ==
  CASE seed = "ds-56" -> <<0, 46>>
    [] seed = "kaggle/1215" -> <<999, 144>>
    [] seed = "hf/1067" -> <<69, 0>>
    [] seed = "ds-5" -> <<458, 999>>
    [] seed = "0" -> <<491, 878>>
    [] seed = "1" -> <<831, 123>>
    [] seed = "2" -> <<689, 512>>
    [] seed = "3" -> <<908, 564>>
    [] seed = "4" -> <<25, 461>>
    [] OTHER -> <<206, 982>>

\* Math.sin(r * 0.8 + c * 0.6) in thousandths, at [r + 1][c + 1]
SinTable ==
  << <<0, 565, 932, 974, 675, 141, -443>>,
     <<717, 985, 909, 516, -58, -612, -952>>,
     <<1000, 808, 335, -256, -757, -994, -883>>,
     <<675, 141, -443, -872, -996, -773, -279>>,
     <<-58, -612, -952, -959, -631, -83, 494>>,
     <<-757, -994, -883, -465, 117, 657, 968>>,
     <<-996, -773, -279, 312, 794, 999, 855>> >>

\* Math.cos(r * 0.5 + c * 0.9) in thousandths, at [r + 1][c + 1]
CosTable ==
  << <<1000, 622, -227, -904, -897, -211, 635>>,
     <<878, 170, -666, -998, -575, 284, 927>>,
     <<540, -323, -942, -848, -112, 709, 993>>,
     <<71, -737, -987, -490, 378, 960, 816>>,
     <<-416, -971, -791, -12, 776, 977, 439>>,
     <<-801, -967, -401, 469, 983, 754, -46>>,
     <<-990, -726, 87, 835, 950, 347, -519>> >>

\* the seed string `${ds.id || ds.source_url || i}` with the index on the list
SeedOfIndex(ds, i) == ToString(i)

\* the seed string `${ds.id || ds.source_url || i}`; "" is a dataset whose id
\* and source_url are empty
SeedOf(ds, i) == IF ds # "" THEN ds ELSE ToString(i)

\* part_001 with baseJitterX and baseJitterY scaled by 1.0 instead of 0.5
organicOffsetWide(rand, r, c, cellW, cellH) ==
  LET baseJitterX == Mul(cellW, rand[1] - 500)
      baseJitterY == Mul(cellH, rand[2] - 500)
      waveOffsetX == Mul(Mul(cellW, SinTable[r + 1][c + 1]), 150)
      waveOffsetY == Mul(Mul(cellH, CosTable[r + 1][c + 1]), 120)
      honeycombOffset == IF r % 2 = 0 THEN Mul(cellW, 80) ELSE -Mul(cellW, 80)
  IN [jitter |-> <<baseJitterX, baseJitterY>>,
      offset |-> <<baseJitterX + waveOffsetX + honeycombOffset,
                   baseJitterY + waveOffsetY>>]

\* part_001: what the loop body adds to the centre of the cell
organicOffset(rand, r, c, cellW, cellH) ==
  LET baseJitterX == Mul(Mul(cellW, rand[1] - 500), 500)
      baseJitterY == Mul(Mul(cellH, rand[2] - 500), 500)
      waveOffsetX == Mul(Mul(cellW, SinTable[r + 1][c + 1]), 150)
      waveOffsetY == Mul(Mul(cellH, CosTable[r + 1][c + 1]), 120)
      honeycombOffset == IF r % 2 = 0 THEN Mul(cellW, 80) ELSE -Mul(cellW, 80)
  IN [jitter |-> <<baseJitterX, baseJitterY>>,
      offset |-> <<baseJitterX + waveOffsetX + honeycombOffset,
                   baseJitterY + waveOffsetY>>]

\* part_002: jitterX and jitterY of the loop body
staggerOffset(rand, r, c, cellW, cellH) ==
  LET seededX == Mul(Mul(cellW, rand[1] - 500), 280)
      seededY == Mul(Mul(cellH, rand[2] - 500), 360)
      stagger == IF c % 2 = 0 THEN -Mul(cellW, 60) ELSE Mul(cellW, 60)
  IN [jitter |-> <<seededX, seededY>>,
      offset |-> <<seededX + stagger, seededY>>]

\* generateNodesScatter(datasets, viewportWidth, viewportHeight) of the given
\* variant of the file, with whole viewport extents. For the empty list n is 1
\* and the first pass of the loop reads ds.id of datasets[0], which is
\* undefined: the call throws a TypeError. Each node keeps r, c and the seeded
\* jitter of its pass of the loop next to its position.
generateNodesScatter(variant, datasets, viewportWidth, viewportHeight) ==
  LET n == Max(Len(datasets), 1)
      usableW == viewportWidth * 860
      usableH == viewportHeight * 720
      cols == Cols(n, usableW, usableH)
      rows == Rows(n, cols)
      cellW == usableW \div cols
      cellH == usableH \div rows
      left == -(usableW \div 2)
      top == usableH \div 2
      node(i) ==
        LET r == i \div cols
            c == i % cols
            ds == datasets[i + 1]
            rand == seededRandom(SeedOf(ds, i))
            o == IF variant = "part_001"
                 THEN organicOffset(rand, r, c, cellW, cellH)
                 ELSE staggerOffset(rand, r, c, cellW, cellH)
            cx == left + c * cellW + cellW \div 2 + o.offset[1]
            cy == top - (r * cellH + cellH \div 2) + o.offset[2]
        IN [dataset |-> ds, position |-> <<cx, cy, 0>>, r |-> r, c |-> c,
            jitter |-> o.jitter]
  IN [threw |-> Len(datasets) = 0,
      nodes |-> [k \in 1..Len(datasets) |-> node(k - 1)],
      cell |-> <<cellW, cellH>>, cols |-> cols, rows |-> rows,
      usable |-> <<usableW, usableH>>]

\* no call of generateNodesScatter
NoLayout ==
  [threw |-> FALSE, nodes |-> << >>, cell |-> <<0, 0>>, cols |-> 0, rows |-> 0,
   usable |-> <<0, 0>>]

\* no earlier render of Scene
NoRender == [datasets |-> << >>, viewport |-> <<0, 0>>, layout |-> NoLayout]

Reverse(s) == [i \in DOMAIN s |-> s[Len(s) + 1 - i]]

Rotate(s) == IF s = << >> THEN s ELSE Append(Tail(s), Head(s))

\* a new datasets array holding the same datasets
Reorderings(s) == {s, Reverse(s), Rotate(s)}

\* ResultsMap is not mounted
LayoutInit ==
  /\ lVariant = "none"
  /\ lDatasets = << >>
  /\ lViewport = <<0, 0>>
  /\ lLayout = NoLayout
  /\ lPrev = NoRender

\* first render of ResultsMap and Scene: useMemo calls generateNodesScatter
LMount ==
  /\ lVariant = "none"
  /\ \E variant \in Variants : \E datasets \in LayoutLists : \E vp \in Viewports :
       /\ lVariant' = variant
       /\ lDatasets' = datasets
       /\ lViewport' = vp
       /\ lLayout' = generateNodesScatter(variant, datasets, vp[1], vp[2])
  /\ lPrev' = NoRender
  /\ UNCHANGED notLayout

\* render of Scene with a new datasets array: the memo is computed again
LDatasets ==
  /\ lVariant # "none" /\ ~lLayout.threw
  /\ \E datasets \in Reorderings(lDatasets) :
       /\ lDatasets' = datasets
       /\ lLayout' = generateNodesScatter(lVariant, datasets, lViewport[1], lViewport[2])
  /\ lPrev' = [datasets |-> lDatasets, viewport |-> lViewport, layout |-> lLayout]
  /\ UNCHANGED <<lVariant, lViewport>>
  /\ UNCHANGED notLayout

\* render of Scene after the canvas was resized: the memo is computed again
LResize ==
  /\ lVariant # "none" /\ ~lLayout.threw
  /\ \E vp \in Viewports \ {lViewport} :
       /\ lViewport' = vp
       /\ lLayout' = generateNodesScatter(lVariant, lDatasets, vp[1], vp[2])
  /\ lPrev' = [datasets |-> lDatasets, viewport |-> lViewport, layout |-> lLayout]
  /\ UNCHANGED <<lVariant, lDatasets>>
  /\ UNCHANGED notLayout

\* unmount of ResultsMap, or the unmount React performs after a render threw
LUnmount ==
  /\ lVariant # "none"
  /\ lVariant' = "none"
  /\ lDatasets' = << >>
  /\ lViewport' = <<0, 0>>
  /\ lLayout' = NoLayout
  /\ lPrev' = NoRender
  /\ UNCHANGED notLayout

NextLayout ==
  \/ LMount
  \/ LDatasets
  \/ LResize
  \/ LUnmount

(* ------------------ determineDatasetType (planet App) ------------------- *)
\* the keywords of the check for tabular data
TabularKeywords ==
  {<<"c", "s", "v">>,
   <<"e", "x", "c", "e", "l">>,
   <<"t", "a", "b", "l", "e">>,
   <<"s", "p", "r", "e", "a", "d", "s", "h", "e", "e", "t">>,
   <<"d", "a", "t", "a", "f", "r", "a", "m", "e">>,
   <<"c", "o", "l", "u", "m", "n", "s">>,
   <<"r", "o", "w", "s">>,
   <<"t", "a", "b", "u", "l", "a", "r">>}

\* the keywords of the check for image data
ImageKeywords ==
  {<<"i", "m", "a", "g", "e">>,
   <<"p", "h", "o", "t", "o">>,
   <<"p", "i", "c", "t", "u", "r", "e">>,
   <<"v", "i", "s", "u", "a", "l">>,
   <<"v", "i", "s", "i", "o", "n">>,
   <<"c", "o", "m", "p", "u", "t", "e", "r", " ", "v", "i", "s", "i", "o", "n">>,
   <<"c", "l", "a", "s", "s", "i", "f", "i", "c", "a", "t", "i", "o", "n">>,
   <<"d", "e", "t", "e", "c", "t", "i", "o", "n">>}

\* the keywords of the check for text data
TextKeywords ==
  {<<"t", "e", "x", "t">>,
   <<"d", "o", "c", "u", "m", "e", "n", "t">>,
   <<"a", "r", "t", "i", "c", "l", "e">>,
   <<"n", "e", "w", "s">>,
   <<"n", "l", "p">>,
   <<"n", "a", "t", "u", "r", "a", "l", " ", "l", "a", "n", "g", "u", "a", "g", "e">>,
   <<"s", "e", "n", "t", "i", "m", "e", "n", "t">>,
   <<"l", "a", "n", "g", "u", "a", "g", "e", " ", "m", "o", "d", "e", "l">>,
   <<"t", "r", "a", "n", "s", "l", "a", "t", "i", "o", "n">>,
   <<"s", "u", "m", "m", "a", "r", "i", "z", "a", "t", "i", "o", "n">>}

\* the keywords of the check for time series data
TimeSeriesKeywords ==
  {<<"t", "i", "m", "e", " ", "s", "e", "r", "i", "e", "s">>,
   <<"t", "e", "m", "p", "o", "r", "a", "l">>,
   <<"f", "o", "r", "e", "c", "a", "s", "t", "i", "n", "g">>,
   <<"t", "r", "e", "n", "d">>,
   <<"s", "e", "q", "u", "e", "n", "c", "e">>,
   <<"c", "h", "r", "o", "n", "o", "l", "o", "g", "i", "c", "a", "l">>}

\* the keywords of the check for audio data
AudioKeywords ==
  {<<"a", "u", "d", "i", "o">>,
   <<"s", "o", "u", "n", "d">>,
   <<"s", "p", "e", "e", "c", "h">>,
   <<"m", "u", "s", "i", "c">>,
   <<"v", "o", "i", "c", "e">>,
   <<"a", "c", "o", "u", "s", "t", "i", "c">>}

\* the keywords of the check for graph and network data
GraphKeywords ==
  {<<"g", "r", "a", "p", "h">>,
   <<"n", "e", "t", "w", "o", "r", "k">>,
   <<"s", "o", "c", "i", "a", "l">>,
   <<"r", "e", "l", "a", "t", "i", "o", "n", "s", "h", "i", "p">>,
   <<"c", "o", "n", "n", "e", "c", "t", "i", "o", "n">>,
   <<"n", "o", "d", "e">>}

\* words a result's content is made of, as sequences of characters
Fragments ==
  {<<"C", "S", "V">>,
   <<"i", "m", "a", "g", "e">>,
   <<"t", "e", "x", "t">>,
   <<"t", "e", "m", "p", "o", "r", "a", "l">>,
   <<"t", "i", "m", "e">>,
   <<"s", "e", "r", "i", "e", "s">>,
   <<"f", "o", "r", "e", "c", "a", "s", "t", "i", "n", "g">>,
   <<"a", "u", "d", "i", "o">>,
   <<"c", "o", "n", "t", "e", "x", "t">>,
   <<"v", "e", "g", "e", "t", "a", "b", "l", "e">>,
   <<"d", "a", "t", "a">>}

\* String.prototype.toLowerCase on one character
LowerChar(c) ==
  CASE c = "A" -> "a"
    [] c = "B" -> "b"
    [] c = "C" -> "c"
    [] c = "D" -> "d"
    [] c = "E" -> "e"
    [] c = "F" -> "f"
    [] c = "G" -> "g"
    [] c = "H" -> "h"
    [] c = "I" -> "i"
    [] c = "J" -> "j"
    [] c = "K" -> "k"
    [] c = "L" -> "l"
    [] c = "M" -> "m"
    [] c = "N" -> "n"
    [] c = "O" -> "o"
    [] c = "P" -> "p"
    [] c = "Q" -> "q"
    [] c = "R" -> "r"
    [] c = "S" -> "s"
    [] c = "T" -> "t"
    [] c = "U" -> "u"
    [] c = "V" -> "v"
    [] c = "W" -> "w"
    [] c = "X" -> "x"
    [] c = "Y" -> "y"
    [] c = "Z" -> "z"
    [] OTHER -> c

\* content.toLowerCase()
toLowerCase(s) == [i \in DOMAIN s |-> LowerChar(s[i])]

\* s.includes(kw)
includes(s, kw) ==
  \E i \in 0..(Len(s) - Len(kw)) : SubSeq(s, i + 1, i + Len(kw)) = kw

\* one of the checks: the disjunction of includes over its keywords
includesAny(s, keywords) == \E kw \in keywords : includes(s, kw)

RECURSIVE Join(_)
\* the words of ws separated by single spaces
Join(ws) ==
  IF ws = << >> THEN << >>
  ELSE IF Len(ws) = 1 THEN ws[1]
  ELSE ws[1] \o <<" ">> \o Join(Tail(ws))

\* result.content of a search result: up to MaxWords words
Contents ==
  {Join(ws) : ws \in UNION {[1..k -> Fragments] : k \in 0..MaxWords}}

\* determineDatasetType with the check for image data moved to the front
determineImagesFirst(content) ==
  LET lowerContent == toLowerCase(content)
  IN IF includesAny(lowerContent, ImageKeywords) THEN "images"
     ELSE IF includesAny(lowerContent, TabularKeywords) THEN "tabular"
     ELSE IF includesAny(lowerContent, TextKeywords) THEN "text"
     ELSE IF includesAny(lowerContent, TimeSeriesKeywords) THEN "tabular"
     ELSE "other"

\* determineDatasetType with the check for time series data moved to the front
determineSeriesFirst(content) ==
  LET lowerContent == toLowerCase(content)
  IN IF includesAny(lowerContent, TimeSeriesKeywords) THEN "tabular"
     ELSE IF includesAny(lowerContent, TabularKeywords) THEN "tabular"
     ELSE IF includesAny(lowerContent, ImageKeywords) THEN "images"
     ELSE IF includesAny(lowerContent, TextKeywords) THEN "text"
     ELSE "other"

\* determineDatasetType(content), its checks in the order of the code
determineDatasetType(content) ==
  LET lowerContent == toLowerCase(content)
  IN IF includesAny(lowerContent, TabularKeywords) THEN "tabular"
     ELSE IF includesAny(lowerContent, ImageKeywords) THEN "images"
     ELSE IF includesAny(lowerContent, TextKeywords) THEN "text"
     ELSE IF includesAny(lowerContent, TimeSeriesKeywords) THEN "tabular"
     ELSE IF includesAny(lowerContent, AudioKeywords) THEN "other"
     ELSE IF includesAny(lowerContent, GraphKeywords) THEN "other"
     ELSE "other"

\* no call of determineDatasetType yet
EncoderInit == eContent = << >> /\ eType = "none"

\* the planets effect calls determineDatasetType(result.content)
Classify ==
  /\ eType = "none"
  /\ \E content \in Contents :
       /\ eContent' = content
       /\ eType' = determineDatasetType(content)
  /\ UNCHANGED notEncoder

\* the planets effect has used the type; the next result is not classified yet
Classified ==
  /\ eType # "none"
  /\ eContent' = << >>
  /\ eType' = "none"
  /\ UNCHANGED notEncoder

NextEncoder ==
  \/ Classify
  \/ Classified

(* --------------------------- Landing page ------------------------------- *)
\* no data carried by a navigation
NoData == "none"

\* setError(null); setLoading(true) and the fetch of /run-agent, whatever the
\* query is
onExploreNoTrim ==
  /\ nSeq < MaxSubmits
  /\ nError' = NoError
  /\ nLoading' = TRUE
  /\ nSeq' = nSeq + 1
  /\ nPending' = nPending \cup {nSeq + 1}
  /\ UNCHANGED <<nRoute, nQuery, nStage, nNavState>>

\* onExplore up to the await of fetch
onExplore ==
  IF Trim(nQuery) = << >>
  THEN /\ nError' = NoError
       /\ UNCHANGED <<nRoute, nQuery, nLoading, nStage, nPending, nSeq, nNavState>>
  ELSE /\ nSeq < MaxSubmits
       /\ nError' = NoError
       /\ nLoading' = TRUE
       /\ nSeq' = nSeq + 1
       /\ nPending' = nPending \cup {nSeq + 1}
       /\ UNCHANGED <<nRoute, nQuery, nStage, nNavState>>

\* onExplore after the awaits, response OK with a JSON body: navigate, then the
\* finally block; the navigation unmounts the page
exploreResolved(r, data) ==
  /\ nPending' = nPending \ {r}
  /\ nRoute' = "/results"
  /\ nNavState' = data
  /\ nLoading' = FALSE
  /\ UNCHANGED <<nQuery, nError, nStage, nSeq>>

\* onExplore after the awaits, fetch rejected, response not OK, or body not
\* JSON: the catch and the finally block
exploreRejected(r, kind) ==
  /\ nPending' = nPending \ {r}
  /\ nError' = kind
  /\ nLoading' = FALSE
  /\ UNCHANGED <<nRoute, nQuery, nStage, nSeq, nNavState>>

\* the Landing page after its first render
LandingInit ==
  /\ nRoute = "/"
  /\ nQuery = << >>
  /\ nLoading = FALSE
  /\ nError = NoError
  /\ nStage = "intro"
  /\ nPending = {}
  /\ nSeq = 0
  /\ nNavState = NoData
  /\ nLastEvent = <<"mount", NoData>>

\* onChange of the input
NSetQuery ==
  /\ nRoute = "/"
  /\ \E q \in Queries \ {nQuery} : nQuery' = q
  /\ nLastEvent' = <<"setQuery", NoData>>
  /\ UNCHANGED <<nRoute, nLoading, nError, nStage, nPending, nSeq, nNavState>>
  /\ UNCHANGED notLanding

\* the timer of the intro stage
NStage ==
  /\ nRoute = "/" /\ nStage = "intro"
  /\ nStage' = "search"
  /\ nLastEvent' = <<"stage", NoData>>
  /\ UNCHANGED <<nRoute, nQuery, nLoading, nError, nPending, nSeq, nNavState>>
  /\ UNCHANGED notLanding

\* onSubmit of the form: a click on the submit button or Enter in the input,
\* both without effect while the button is disabled
NSubmit ==
  /\ nRoute = "/" /\ ~nLoading
  /\ onExplore
  /\ nLastEvent' = <<"submit", NoData>>
  /\ UNCHANGED notLanding

NResponseOk ==
  /\ \E r \in nPending : \E data \in RunResults :
       /\ exploreResolved(r, data)
       /\ nLastEvent' = <<"responseOk", data>>
  /\ UNCHANGED notLanding

NResponseFail ==
  /\ \E r \in nPending : \E kind \in GFailures : exploreRejected(r, kind)
  /\ nLastEvent' = <<"responseFail", NoData>>
  /\ UNCHANGED notLanding

\* navigate('/') of the Results page: a new Landing page is mounted
NReturn ==
  /\ nRoute = "/results"
  /\ nRoute' = "/"
  /\ nQuery' = << >>
  /\ nLoading' = FALSE
  /\ nError' = NoError
  /\ nStage' = "intro"
  /\ nNavState' = NoData
  /\ nLastEvent' = <<"mount", NoData>>
  /\ UNCHANGED <<nPending, nSeq>>
  /\ UNCHANGED notLanding

NextLanding ==
  \/ NSetQuery
  \/ NStage
  \/ NSubmit
  \/ NResponseOk
  \/ NResponseFail
  \/ NReturn

(* --------------------------- Results page ------------------------------- *)
\* ids.length > 0 ? all.filter(d => ids.includes(d.id)) : all
Filtered(all, ids) ==
  IF Len(ids) > 0 THEN SelectSeq(all, LAMBDA d : d \in Range(ids)) ELSE all

\* the ids of the loads that are in flight
LoadIds == {l.id : l \in rLoads}

\* the cleanup of the load effect: cancelled = true in the closure of its run
Cancelled(loads) == {[l EXCEPT !.cancelled = TRUE] : l \in loads}

\* the load effect, run for payload ids: setLoading(true), setError(null) and
\* the fetch of /datasets
LoadEffect(ids) ==
  /\ rLoading' = TRUE
  /\ rError' = NoError
  /\ rLoadSeq' = rLoadSeq + 1
  /\ rLoads' = Cancelled(rLoads) \cup {[id |-> rLoadSeq + 1, ids |-> ids, cancelled |-> FALSE]}
  /\ rLatest' = <<FALSE, << >> >>

\* load() after the awaits, response OK, with every setter behind the test of
\* cancelled removed
loadResolvedUnguarded(l, all) ==
  /\ rLoads' = rLoads \ {l}
  /\ rLatest' = IF l.id = rLoadSeq THEN <<TRUE, Filtered(all, l.ids)>> ELSE rLatest
  /\ rDatasets' = Filtered(all, l.ids)
  /\ rLoading' = FALSE
  /\ UNCHANGED <<rMounted, rPayload, rError, rLoadSeq, rResetting, rResets, rResetSeq,
                 rNavs>>

\* load() after the awaits, response OK: the try body and the finally block
loadResolved(l, all) ==
  /\ rLoads' = rLoads \ {l}
  /\ rLatest' = IF l.id = rLoadSeq THEN <<TRUE, Filtered(all, l.ids)>> ELSE rLatest
  /\ IF l.cancelled
     THEN UNCHANGED <<rDatasets, rLoading>>
     ELSE /\ rDatasets' = Filtered(all, l.ids)
          /\ rLoading' = FALSE
  /\ UNCHANGED <<rMounted, rPayload, rError, rLoadSeq, rResetting, rResets, rResetSeq,
                 rNavs>>

\* load() after the awaits, fetch rejected, response not OK or body not JSON:
\* the catch and the finally block
loadRejected(l, kind) ==
  /\ rLoads' = rLoads \ {l}
  /\ IF l.cancelled
     THEN UNCHANGED <<rError, rLoading>>
     ELSE /\ rError' = kind
          /\ rLoading' = FALSE
  /\ UNCHANGED <<rMounted, rPayload, rDatasets, rLoadSeq, rLatest, rResetting, rResets,
                 rResetSeq, rNavs>>

\* handleNewSearch with a catch block that only logs
resetNavigationsOnlyOk(outcome) == IF outcome = "OK" THEN <<"/">> ELSE << >>

\* the calls of navigate handleNewSearch makes after the awaits: the one of the
\* try body when the response is OK and JSON, the one of the catch block
\* otherwise
resetNavigations(outcome) == IF outcome = "OK" THEN <<"/">> ELSE <<"/">>

\* handleNewSearch up to the await of fetch
handleNewSearch ==
  /\ rResetSeq < MaxResets
  /\ rResetting' = TRUE
  /\ rResetSeq' = rResetSeq + 1
  /\ rResets' = rResets \cup {rResetSeq + 1}
  /\ UNCHANGED <<rMounted, rPayload, rDatasets, rLoading, rError, rLoads, rLoadSeq,
                 rLatest, rNavs>>

\* handleNewSearch after the awaits: try or catch, then the finally block; a
\* navigation unmounts the page, which runs the cleanup of the load effect
resetSettled(id, outcome) ==
  /\ rResets' = rResets \ {id}
  /\ rNavs' = rNavs \o [i \in 1..Len(resetNavigations(outcome)) |-> id]
  /\ rResetting' = FALSE
  /\ IF resetNavigations(outcome) # << >>
     THEN rMounted' = FALSE /\ rLoads' = Cancelled(rLoads)
     ELSE UNCHANGED <<rMounted, rLoads>>
  /\ UNCHANGED <<rPayload, rDatasets, rLoading, rError, rLoadSeq, rLatest, rResetSeq>>

\* the Results route is not rendered
ResultsInit ==
  /\ rMounted = FALSE
  /\ rPayload = << >>
  /\ rDatasets = << >>
  /\ rLoading = TRUE
  /\ rError = NoError
  /\ rLoads = {}
  /\ rLoadSeq = 0
  /\ rLatest = <<FALSE, << >> >>
  /\ rResetting = FALSE
  /\ rResets = {}
  /\ rResetSeq = 0
  /\ rNavs = << >>
  /\ rLastEvent = <<"none", "-">>

\* first render of Results with location.state.result.dataset_ids = ids, and
\* the first run of the load effect
RMount ==
  /\ ~rMounted /\ rLoadSeq < MaxLoads
  /\ \E ids \in Payloads :
       /\ rPayload' = ids
       /\ LoadEffect(ids)
  /\ rMounted' = TRUE
  /\ rDatasets' = << >>
  /\ rResetting' = FALSE
  /\ rLastEvent' = <<"mount", "-">>
  /\ UNCHANGED <<rResets, rResetSeq, rNavs>>
  /\ UNCHANGED notResults

\* location.state changes while the page is mounted: cleanup of the load
\* effect, then its next run
RPayload ==
  /\ rMounted /\ rLoadSeq < MaxLoads
  /\ \E ids \in Payloads :
       /\ rPayload' = ids
       /\ LoadEffect(ids)
  /\ rLastEvent' = <<"payload", "-">>
  /\ UNCHANGED <<rMounted, rDatasets, rResetting, rResets, rResetSeq, rNavs>>
  /\ UNCHANGED notResults

RLoadOk ==
  /\ \E l \in rLoads : \E all \in ResultLists :
       /\ loadResolved(l, all)
       /\ rLastEvent' = <<"loadOk", IF l.cancelled THEN "cancelled" ELSE "live">>
  /\ UNCHANGED notResults

RLoadFail ==
  /\ \E l \in rLoads : \E kind \in GFailures :
       /\ loadRejected(l, kind)
       /\ rLastEvent' = <<"loadFail", IF l.cancelled THEN "cancelled" ELSE "live">>
  /\ UNCHANGED notResults

\* onClick of the New search button, disabled while resetting
RNewSearch ==
  /\ rMounted /\ ~rResetting
  /\ handleNewSearch
  /\ rLastEvent' = <<"newSearch", "-">>
  /\ UNCHANGED notResults

RResetDone ==
  /\ \E id \in rResets : \E outcome \in {"OK"} \cup GFailures :
       /\ resetSettled(id, outcome)
       /\ rLastEvent' = <<"resetDone", outcome>>
  /\ UNCHANGED notResults

NextResults ==
  \/ RMount
  \/ RPayload
  \/ RLoadOk
  \/ RLoadFail
  \/ RNewSearch
  \/ RResetDone

(* --------------------------- Analysis page ------------------------------ *)
\* s.endsWith(suffix)
endsWith(s, suffix) ==
  Len(suffix) <= Len(s) /\ SubSeq(s, Len(s) - Len(suffix) + 1, Len(s)) = suffix

\* ['.csv', '.xlsx', '.xls', '.json']
supportedExtensions ==
  {<<".", "c", "s", "v">>, <<".", "x", "l", "s", "x">>, <<".", "x", "l", "s">>,
   <<".", "j", "s", "o", "n">>}

\* the files memo: the files of the dataset with a supported extension
SupportedFiles(all) ==
  SelectSeq(all, LAMBDA f : \E ext \in supportedExtensions : endsWith(toLowerCase(f), ext))

\* the list the sidebar renders: the files whose path includes the search text
SidebarList ==
  SelectSeq(aFiles, LAMBDA f : includes(toLowerCase(f), toLowerCase(aSearch)))

\* files.findIndex(f => f.file_path.endsWith(fileParam)), -1 if there is none
FindIndex(files, fileParam) ==
  IF \E i \in DOMAIN files : endsWith(files[i], fileParam)
  THEN (CHOOSE i \in DOMAIN files :
          /\ endsWith(files[i], fileParam)
          /\ \A j \in 1..(i - 1) : ~endsWith(files[j], fileParam)) - 1
  ELSE -1

\* no file
NoFile == << >>

\* const active = files[activeIdx], NoFile when it is undefined
ActiveOf(files, idx) == IF idx + 1 \in DOMAIN files THEN files[idx + 1] ELSE NoFile

\* the preview requests a run of the loadPrev effect adds when the active file
\* is file: none when active is undefined
PreviewRequests(file, seq) ==
  IF file = NoFile THEN {} ELSE {[id |-> seq + 1, file |-> file]}

\* the Analysis page after its first render: the fetch of /dataset is pending
AnalysisInit ==
  /\ aLoad = "pending"
  /\ aLoading = TRUE
  /\ aError = NoError
  /\ aFiles = << >>
  /\ aActiveIdx = 0
  /\ aSearch = << >>
  /\ aPreview = <<"null", NoFile>>
  /\ aPreviewLoading = FALSE
  /\ aPending = {}
  /\ aSeq = 0
  /\ aClicked = NoFile
  /\ aLastEvent = "mount"

\* load() resolves with a dataset whose files are all, the URL holding
\* ?file=fileParam (NoFile: no such parameter). The effects of the render that
\* follows run with activeIdx = 0: loadPrev asks for the preview of files[0],
\* and the ?file= effect sets activeIdx; when that changes it, loadPrev runs
\* again for the new active file.
ALoadOk ==
  /\ aLoad = "pending"
  /\ \E all \in FileLists : \E fileParam \in FileParams :
       LET files == SupportedFiles(all)
           idx == IF files = << >> THEN 0
                  ELSE IF fileParam = NoFile THEN 0
                  ELSE IF FindIndex(files, fileParam) >= 0 THEN FindIndex(files, fileParam)
                  ELSE 0
           first == PreviewRequests(ActiveOf(files, 0), aSeq)
           second == IF idx # 0 THEN PreviewRequests(ActiveOf(files, idx), aSeq + 1) ELSE {}
       IN /\ aFiles' = files
          /\ aActiveIdx' = idx
          /\ aPending' = aPending \cup first \cup second
          /\ aSeq' = aSeq + Cardinality(first) + Cardinality(second)
          /\ aPreviewLoading' = (aPreviewLoading \/ first # {})
  /\ aLoad' = "done"
  /\ aLoading' = FALSE
  /\ aLastEvent' = "loadOk"
  /\ UNCHANGED <<aError, aSearch, aPreview, aClicked>>
  /\ UNCHANGED notAnalysis

\* load() fails: fetch rejected, response not OK or body not JSON
ALoadFail ==
  /\ aLoad = "pending"
  /\ \E kind \in GFailures : aError' = kind
  /\ aLoad' = "done"
  /\ aLoading' = FALSE
  /\ aLastEvent' = "loadFail"
  /\ UNCHANGED <<aFiles, aActiveIdx, aSearch, aPreview, aPreviewLoading, aPending,
                 aSeq, aClicked>>
  /\ UNCHANGED notAnalysis

\* onChange of the file-search input
ASearch ==
  /\ \E text \in FileSearches \ {aSearch} : aSearch' = text
  /\ aLastEvent' = "search"
  /\ UNCHANGED <<aLoad, aLoading, aError, aFiles, aActiveIdx, aPreview,
                 aPreviewLoading, aPending, aSeq, aClicked>>
  /\ UNCHANGED notAnalysis

\* onClick of entry i of the sidebar list: setActiveIdx(i), then the loadPrev
\* effect when activeIdx changed
AClick ==
  /\ \E i \in 0..(Len(SidebarList) - 1) :
       /\ aClicked' = SidebarList[i + 1]
       /\ aActiveIdx' = i
       /\ IF i # aActiveIdx
          THEN /\ aSeq < MaxPreviews
               /\ aPending' = aPending \cup PreviewRequests(ActiveOf(aFiles, i), aSeq)
               /\ aSeq' = aSeq + 1
               /\ aPreviewLoading' = TRUE
          ELSE UNCHANGED <<aPending, aSeq, aPreviewLoading>>
  /\ aLastEvent' = "click"
  /\ UNCHANGED <<aLoad, aLoading, aError, aFiles, aSearch, aPreview>>
  /\ UNCHANGED notAnalysis

\* loadPrev after the awaits, with a JSON body: setPreview and the finally block
APreviewOk ==
  /\ \E req \in aPending :
       /\ aPending' = aPending \ {req}
       /\ aPreview' = <<"data", req.file>>
  /\ aPreviewLoading' = FALSE
  /\ aLastEvent' = "previewOk"
  /\ UNCHANGED <<aLoad, aLoading, aError, aFiles, aActiveIdx, aSearch, aSeq, aClicked>>
  /\ UNCHANGED notAnalysis

\* loadPrev after the awaits, fetch rejected or body not JSON: the catch block
\* sets an empty preview, then the finally block
APreviewFail ==
  /\ \E req \in aPending :
       /\ aPending' = aPending \ {req}
       /\ aPreview' = <<"empty", req.file>>
  /\ aPreviewLoading' = FALSE
  /\ aLastEvent' = "previewFail"
  /\ UNCHANGED <<aLoad, aLoading, aError, aFiles, aActiveIdx, aSearch, aSeq, aClicked>>
  /\ UNCHANGED notAnalysis

NextAnalysis ==
  \/ ALoadOk
  \/ ALoadFail
  \/ ASearch
  \/ AClick
  \/ APreviewOk
  \/ APreviewFail

(* ------------------------------ QuickPlots ------------------------------ *)
\* the plots memo: the static plot types relevant for the props
plots ==
  SelectSeq(<<"missing_heatmap", "type_distribution", "data_quality", "column_analysis">>,
            LAMBDA type : /\ ~(type = "missing_heatmap" /\ ~qProps.missing)
                          /\ ~(type = "data_quality" /\ qProps.quality100))

\* showGeneratedPlots && generatedPlots.length > 0: the generated plot view
GeneratedView == qShow /\ Len(qGenerated) > 0

\* the static plot view: rendered when the generated view is not, nothing is
\* being generated and no error is shown
StaticView == ~GeneratedView /\ ~qIsGenerating /\ qError = NoError

\* the list whose entry currentPlotIndex is rendered
DisplayedPlots == IF GeneratedView THEN qGenerated ELSE plots

\* the Previous and Next buttons are rendered
NavigationShown ==
  \/ GeneratedView /\ Len(qGenerated) > 1
  \/ StaticView /\ Len(plots) > 1

\* QuickPlots is not mounted
QuickInit ==
  /\ qProps = [mounted |-> FALSE, missing |-> FALSE, quality100 |-> FALSE,
               canGenerate |-> FALSE]
  /\ qIndex = 0
  /\ qGenerated = << >>
  /\ qShow = FALSE
  /\ qIsGenerating = FALSE
  /\ qError = NoError
  /\ qPending = {}
  /\ qSeq = 0
  /\ qLastEvent = "none"

\* first render of QuickPlots with its props
QMount ==
  /\ ~qProps.mounted
  /\ \E missing \in BOOLEAN : \E quality100 \in BOOLEAN : \E canGenerate \in BOOLEAN :
       qProps' = [mounted |-> TRUE, missing |-> missing, quality100 |-> quality100,
                  canGenerate |-> canGenerate]
  /\ qIndex' = 0
  /\ qGenerated' = << >>
  /\ qShow' = FALSE
  /\ qIsGenerating' = FALSE
  /\ qError' = NoError
  /\ qLastEvent' = "mount"
  /\ UNCHANGED <<qPending, qSeq>>
  /\ UNCHANGED notQuick

\* generatePlots up to the await of fetch
generatePlots ==
  IF ~qProps.canGenerate
  THEN /\ qError' = "MISSING"
       /\ UNCHANGED <<qProps, qIndex, qGenerated, qShow, qIsGenerating, qPending, qSeq>>
  ELSE /\ qSeq < MaxGenerations
       /\ qIsGenerating' = TRUE
       /\ qError' = NoError
       /\ qSeq' = qSeq + 1
       /\ qPending' = qPending \cup {qSeq + 1}
       /\ UNCHANGED <<qProps, qIndex, qGenerated, qShow>>

\* onClick of the Generate Plots button, rendered while no generated plots are
\* shown and sourceUrl and fileName are set, disabled while generating
QGenerate ==
  /\ qProps.mounted /\ ~qShow /\ qProps.canGenerate /\ ~qIsGenerating
  /\ generatePlots
  /\ qLastEvent' = "generate"
  /\ UNCHANGED notQuick

\* generatePlots after the awaits, response OK with result.success
QGenerateOk ==
  /\ qProps.mounted
  /\ \E r \in qPending : \E list \in GeneratedLists :
       /\ qPending' = qPending \ {r}
       /\ qGenerated' = list
  /\ qShow' = TRUE
  /\ qIndex' = 0
  /\ qIsGenerating' = FALSE
  /\ qLastEvent' = "generateOk"
  /\ UNCHANGED <<qProps, qError, qSeq>>
  /\ UNCHANGED notQuick

\* generatePlots after the awaits: result.success false, response not OK, fetch
\* rejected or body not JSON
QGenerateFail ==
  /\ qProps.mounted
  /\ \E r \in qPending : \E kind \in {"UNSUCCESSFUL"} \cup GFailures :
       /\ qPending' = qPending \ {r}
       /\ qError' = kind
  /\ qIsGenerating' = FALSE
  /\ qLastEvent' = "generateFail"
  /\ UNCHANGED <<qProps, qIndex, qGenerated, qShow, qSeq>>
  /\ UNCHANGED notQuick

\* setCurrentPlotIndex((prev) => (prev + 1) % plots.length)
nextPlot == qIndex' = (qIndex + 1) % Len(plots)

\* setCurrentPlotIndex((prev) => (prev - 1 + plots.length) % plots.length)
prevPlot == qIndex' = (qIndex - 1 + Len(plots)) % Len(plots)

\* onClick of the Next button
QNext ==
  /\ qProps.mounted /\ NavigationShown
  /\ nextPlot
  /\ qLastEvent' = "next"
  /\ UNCHANGED <<qProps, qGenerated, qShow, qIsGenerating, qError, qPending, qSeq>>
  /\ UNCHANGED notQuick

\* onClick of the Previous button
QPrev ==
  /\ qProps.mounted /\ NavigationShown
  /\ prevPlot
  /\ qLastEvent' = "prev"
  /\ UNCHANGED <<qProps, qGenerated, qShow, qIsGenerating, qError, qPending, qSeq>>
  /\ UNCHANGED notQuick

\* onClick of Back to Static Plots
QBack ==
  /\ qProps.mounted /\ GeneratedView
  /\ qShow' = FALSE
  /\ qLastEvent' = "back"
  /\ UNCHANGED <<qProps, qIndex, qGenerated, qIsGenerating, qError, qPending, qSeq>>
  /\ UNCHANGED notQuick

\* onClick of Dismiss on the error message
QDismiss ==
  /\ qProps.mounted /\ qError # NoError
  /\ qError' = NoError
  /\ qLastEvent' = "dismiss"
  /\ UNCHANGED <<qProps, qIndex, qGenerated, qShow, qIsGenerating, qPending, qSeq>>
  /\ UNCHANGED notQuick

NextQuick ==
  \/ QMount
  \/ QGenerate
  \/ QGenerateOk
  \/ QGenerateFail
  \/ QNext
  \/ QPrev
  \/ QBack
  \/ QDismiss

(* ---------------------------- specifications ---------------------------- *)
Init ==
  /\ PlanetInit /\ GalaxyInit /\ LayoutInit /\ EncoderInit
  /\ LandingInit /\ ResultsInit /\ AnalysisInit /\ QuickInit

Next ==
  \/ SetQuery
  \/ SubmitEnter
  \/ SubmitButton
  \/ SearchOk
  \/ SearchFail
  \/ Click
  \/ BackToResults
  \/ BackToLanding
  \/ ErrorClose
  \/ Frame
  \/ Unmount

Spec == Init /\ [][Next]_vars

SpecGalaxy == Init /\ [][NextGalaxy]_vars

SpecLayout == Init /\ [][NextLayout]_vars

SpecEncoder == Init /\ [][NextEncoder]_vars

SpecLanding == Init /\ [][NextLanding]_vars

SpecResults == Init /\ [][NextResults]_vars

SpecAnalysis == Init /\ [][NextAnalysis]_vars

SpecQuick == Init /\ [][NextQuick]_vars

(* -------------------------------- claims -------------------------------- *)

\* C1: the selection is non-null if and only if uiState is 'detail', after any
\* sequence of submits, responses, clicks and back actions.
C1_SelectionIffDetail == (selectedPlanet # NoPlanet) <=> (uiState = "detail")

\* the transitions the state machine lists
ListedTransitions ==
  { <<"landing", "searching">>, <<"searching", "results">>, <<"results", "detail">>,
    <<"detail", "results">>, <<"results", "landing">> }

\* C2: every change of uiState is one of the listed transitions
\* landing -> searching -> results -> detail -> results -> landing.
C2_OnlyListedTransitions ==
  [][uiState' # uiState => <<uiState, uiState'>> \in ListedTransitions]_vars

\* C3: uiState becomes 'detail' only from 'results', in the step of a select
\* event that carries a node of the current node set.
C3_DetailOnlyFromResults ==
  [][(uiState # "detail" /\ uiState' = "detail") =>
       /\ uiState = "results"
       /\ lastEvent' = "click"
       /\ selectedPlanet' \in Range(planets)]_vars

\* C4: in every state with uiState 'detail' the back action is offered, and it
\* yields uiState 'results' with the selection none, leaving the dataset list
\* and the node set unchanged.
C4_BackFromDetail ==
  [][/\ (mounted /\ uiState = "detail" => selectedPlanet # NoPlanet)
     /\ (lastEvent' = "backToResults" =>
           /\ uiState = "detail"
           /\ uiState' = "results"
           /\ selectedPlanet' = NoPlanet
           /\ searchResults' = searchResults
           /\ planets' = planets)]_vars

\* C4, witness: the back action has just returned from 'detail' to 'results'
\* of a non-empty node set.
C4_Witness ==
  /\ lastEvent = "backToResults"
  /\ uiState = "results"
  /\ selectedPlanet = NoPlanet
  /\ planets # << >>

\* C5: the dataset list is never that of a request superseded by a later
\* request whose response has already been applied.
C5_StaleResponseNeverApplied ==
  appliedReq # 0 => \A r \in completedOk : r <= appliedReq

\* C6: while a request is in flight the UI is in 'searching' and no second
\* request is in flight.
C6_SearchingGate ==
  inflight # {} => (uiState = "searching" /\ Cardinality(inflight) = 1)

\* C7: in the step of a failed search request uiState does not become
\* 'results', the failure is recorded in error, the dataset list and the node
\* set are unchanged, and isSearching is false afterwards.
C7_FailureIsItsOwnCondition ==
  [][lastEvent' = "searchFail" =>
       /\ ~(uiState # "results" /\ uiState' = "results")
       /\ error' \in Failures
       /\ searchResults' = searchResults
       /\ planets' = planets
       /\ isSearching' = FALSE]_vars

\* C7, witness: a request has just failed while an earlier dataset list and
\* its node set exist.
C7_Witness ==
  /\ lastEvent = "searchFail"
  /\ error \in Failures
  /\ ~isSearching
  /\ searchResults # << >>
  /\ Len(planets) = Len(searchResults)

\* C8: after teardown the number of geometries and materials disposed equals
\* the number created, whatever the number of rebuilds.
C8_ResourceParity == ~mounted => disposed = created

\* C9: no frame callback renders after the disposal of its renderer.
C9_NoFrameAfterDispose == ~useAfterDispose /\ ~gUseAfterDispose

\* C10: whenever a frame can be rendered, the live nodes are one per dataset of
\* the current dataset list, node i built from dataset i.
C10_NodesMatchDatasets ==
  rafPending =>
    /\ Len(planets) = Len(searchResults)
    /\ \A i \in DOMAIN planets :
         planets[i].id = i - 1 /\ planets[i].result = searchResults[i]

Abs(x) == IF x < 0 THEN -x ELSE x

\* the results of the planets, in the order of the list
ResultsOf(ps) == [i \in DOMAIN ps |-> ps[i].result]

\* C11: two runs of the layout on the same dataset list give the same
\* positions: when the planets are built again from a list of the same results,
\* every planet gets the position it had.
C11_LayoutDeterministic ==
  [][(buildSeq' # buildSeq /\ planets # << >> /\ ResultsOf(planets') = ResultsOf(planets))
       => \A i \in DOMAIN planets : planets'[i].position = planets[i].position]_vars

\* the centre of the grid cell of a node of the current layout
CellCentre(nd) ==
  <<-(lLayout.usable[1] \div 2) + nd.c * lLayout.cell[1] + lLayout.cell[1] \div 2,
    lLayout.usable[2] \div 2 - (nd.r * lLayout.cell[2] + lLayout.cell[2] \div 2)>>

\* C12: in the planar layout every node is at most half a cell away from the
\* centre of the cell of its index (row floor(i/cols), column i mod cols) on
\* each axis, and it lies inside the usable area.
C12_NodeInsideItsCell ==
  \A i \in DOMAIN lLayout.nodes :
    LET nd == lLayout.nodes[i]
    IN /\ nd.r = (i - 1) \div lLayout.cols
       /\ nd.c = (i - 1) % lLayout.cols
       /\ 2 * Abs(nd.position[1] - CellCentre(nd)[1]) <= lLayout.cell[1]
       /\ 2 * Abs(nd.position[2] - CellCentre(nd)[2]) <= lLayout.cell[2]
       /\ 2 * Abs(nd.position[1]) <= lLayout.usable[1]
       /\ 2 * Abs(nd.position[2]) <= lLayout.usable[2]

\* a node whose offsets add up to more than 0.47 of the cell width
C12_Witness ==
  \E i \in DOMAIN lLayout.nodes :
    100 * Abs(lLayout.nodes[i].position[1] - CellCentre(lLayout.nodes[i])[1])
      >= 47 * lLayout.cell[1]

\* C13: cols is the least whole number whose square is at least N * aspect and
\* rows the least whole number with rows * cols >= N; every index gets a row
\* below rows and a column below cols, two indices never share a cell, and 5
\* datasets on a 1000 x 800 viewport give cols = 3 and rows = 2.
C13_GridHoldsEveryIndex ==
  lLayout.nodes # << >> =>
    LET n == Len(lLayout.nodes)
        cols == lLayout.cols
        rows == lLayout.rows
        nodes == lLayout.nodes
    IN /\ cols * cols * lLayout.usable[2] >= n * lLayout.usable[1]
       /\ (cols - 1) * (cols - 1) * lLayout.usable[2] < n * lLayout.usable[1]
       /\ rows * cols >= n
       /\ (rows - 1) * cols < n
       /\ lLayout.usable = <<lViewport[1] * 860, lViewport[2] * 720>>
       /\ \A i \in DOMAIN nodes : nodes[i].r < rows /\ nodes[i].c < cols
       /\ \A i, j \in DOMAIN nodes :
            i # j => <<nodes[i].r, nodes[i].c>> # <<nodes[j].r, nodes[j].c>>
       /\ (n = 5 /\ lViewport = <<1000, 800>>) => (cols = 3 /\ rows = 2)

\* 5 datasets laid out on a 1000 x 800 viewport, the last one in row 1
C13_Witness ==
  /\ Len(lLayout.nodes) = 5
  /\ lViewport = <<1000, 800>>
  /\ lLayout.nodes[5].r = 1 /\ lLayout.nodes[5].c = 1

\* C14: after a response with an empty dataset list is applied, the scene
\* holds no nodes.
C14_EmptyListLeavesNoNodes ==
  (lastEvent = "searchOk" /\ searchResults = << >>) => planets = << >>

\* C15: a list of one dataset is laid out on a grid of one column and one row.
C15_SingleNodeSingleCell ==
  Len(lLayout.nodes) = 1 => (lLayout.cols = 1 /\ lLayout.rows = 1)

\* a render that follows a render of the same datasets on the same viewport
SameInputsAgain == lPrev # NoRender /\ lPrev.viewport = lViewport

\* C16 as stated: after a render with the same datasets in another order on the
\* same viewport, every dataset with an id has the position it had.
C16_PositionStableUnderPermutation ==
  SameInputsAgain =>
    \A i \in DOMAIN lLayout.nodes : \A j \in DOMAIN lPrev.layout.nodes :
      (lLayout.nodes[i].dataset # "" /\
       lLayout.nodes[i].dataset = lPrev.layout.nodes[j].dataset)
        => lLayout.nodes[i].position = lPrev.layout.nodes[j].position

\* C16, amended: after a render with the same datasets in another order on the
\* same viewport, every dataset with an id has the seeded jitter it had.
C16_SeededJitterStable ==
  SameInputsAgain =>
    \A i \in DOMAIN lLayout.nodes : \A j \in DOMAIN lPrev.layout.nodes :
      (lLayout.nodes[i].dataset # "" /\
       lLayout.nodes[i].dataset = lPrev.layout.nodes[j].dataset)
        => lLayout.nodes[i].jitter = lPrev.layout.nodes[j].jitter

\* a dataset with an id that moved to another index between the two renders
C16_Witness ==
  /\ SameInputsAgain
  /\ \E i \in DOMAIN lLayout.nodes : \E j \in DOMAIN lPrev.layout.nodes :
       /\ i # j
       /\ lLayout.nodes[i].dataset # ""
       /\ lLayout.nodes[i].dataset = lPrev.layout.nodes[j].dataset

\* C17: determineDatasetType returns the type of the first of the tabular,
\* image and text checks that matches, in that order, whatever else the content
\* holds; a content with "csv" and "image" is tabular; a content no check
\* matches is other; the result is one of the four types.
C17_FirstMatchWins ==
  eType # "none" =>
    LET lower == toLowerCase(eContent)
        tab == includesAny(lower, TabularKeywords)
        img == includesAny(lower, ImageKeywords)
        txt == includesAny(lower, TextKeywords)
        ser == includesAny(lower, TimeSeriesKeywords)
    IN /\ eType \in {"tabular", "images", "text", "other"}
       /\ tab => eType = "tabular"
       /\ (~tab /\ img) => eType = "images"
       /\ (~tab /\ ~img /\ txt) => eType = "text"
       /\ (~tab /\ ~img /\ ~txt /\ ~ser) => eType = "other"

\* a content with "CSV" and "image", classified as tabular
C17_Witness ==
  /\ eContent = Join(<< <<"C", "S", "V">>, <<"i", "m", "a", "g", "e">> >>)
  /\ eType = "tabular"

\* C18 as stated: every content with a time-series term is tabular, also when
\* it holds image or text keywords.
C18_SeriesAlwaysTabular ==
  (eType # "none" /\ includesAny(toLowerCase(eContent), TimeSeriesKeywords))
    => eType = "tabular"

\* C18, amended: the time-series check comes after the tabular, image and text
\* checks: a content with a time-series term is tabular exactly when it holds a
\* tabular keyword or neither an image nor a text keyword.
C18_SeriesTabularUnlessImageOrText ==
  (eType # "none" /\ includesAny(toLowerCase(eContent), TimeSeriesKeywords))
    => LET lower == toLowerCase(eContent)
       IN (eType = "tabular") <=>
            \/ includesAny(lower, TabularKeywords)
            \/ /\ ~includesAny(lower, ImageKeywords)
               /\ ~includesAny(lower, TextKeywords)

\* "image temporal" and the like: a time-series term next to an image keyword,
\* classified as images
C18_Witness ==
  /\ includesAny(toLowerCase(eContent), TimeSeriesKeywords)
  /\ includesAny(toLowerCase(eContent), ImageKeywords)
  /\ eType = "images"

\* C19: when the ray of a click intersects several live planets, the planet the
\* click selects is one of them and none of them is nearer to the camera.
C19_NearestHitSelected ==
  [][(lastEvent' = "click" /\ lastHits' # {}) =>
       \E i \in lastHits' :
         /\ selectedPlanet' = planets[i]
         /\ \A j \in lastHits' :
              Dist2(camera, planets[i].position) <= Dist2(camera, planets[j].position)]_vars

\* a click whose ray went through both planets and selected the second one
C19_Witness ==
  /\ lastEvent = "click"
  /\ lastHits = {1, 2}
  /\ selectedPlanet = planets[2]

\* C20: a click whose ray hits no planet changes nothing: uiState, selection,
\* camera, dataset list, planets and error stay as they were.
C20_MissChangesNothing ==
  [][(lastEvent' = "click" /\ lastHits' = {}) => UNCHANGED planetState]_vars

\* a click that missed every planet while a planet was selected
C20_Witness ==
  /\ lastEvent = "click"
  /\ lastHits = {}
  /\ uiState = "detail"
  /\ selectedPlanet # NoPlanet

\* C21: in every reachable state a non-null selection is one of the planets of
\* the current node set, also after the planets were built again.
C21_SelectionIsLiveNode ==
  selectedPlanet # NoPlanet => selectedPlanet \in Range(planets)

(* the render of the planet App: which overlays the JSX returns *)
\* {uiState === 'landing' && (...)}
landingPanel == uiState = "landing"

\* {uiState === 'results' && (...)}
resultsPanel == uiState = "results"

\* the detail overlay rendered whenever a planet is selected
detailPanelAnyState == selectedPlanet # NoPlanet

\* {uiState === 'detail' && selectedPlanet && (...)}
detailPanel == uiState = "detail" /\ selectedPlanet # NoPlanet

\* the primary panels the render returns
VisiblePanels ==
  {p \in {"landing", "results", "detail"} :
     \/ p = "landing" /\ landingPanel
     \/ p = "results" /\ resultsPanel
     \/ p = "detail" /\ detailPanel}

\* C22: while the App is mounted exactly one primary panel is rendered, the one
\* named by uiState.
C22_OnePrimaryPanel == mounted => VisiblePanels = {uiState}

\* the detail panel rendered for a selected planet
C22_Witness == mounted /\ uiState = "detail" /\ VisiblePanels = {"detail"}

\* C23: while the galaxy App is mounted, one frame loop is live, however often
\* the list of items changed.
C23_OneFrameLoop == gMounted => Len(gTicks) = 1

\* the point the camera is moved toward after a click on the planet
CameraTarget(planet) == Scale(planet.position, 15, 10)

\* C24: with a planet selected, every frame moves the camera nearer to the
\* target of the selection, unless the camera is at the target.
C24_FrameApproachesTarget ==
  [][(lastEvent' = "frame" /\ uiState = "detail" /\ selectedPlanet # NoPlanet
        /\ camera # CameraTarget(selectedPlanet))
       => Dist2(camera', CameraTarget(selectedPlanet))
            < Dist2(camera, CameraTarget(selectedPlanet))]_vars

PendingForActive == {req \in aPending : req.file = ActiveOf(aFiles, aActiveIdx)}

\* C26: the preview that remains when no preview request is in flight is the
\* one of the active file, and previewLoading is false only when no preview
\* request for the active file is pending.
C26_PreviewOfActiveFile ==
  /\ (aPending = {} /\ aPreview[1] # "null") => aPreview[2] = ActiveOf(aFiles, aActiveIdx)
  /\ ~aPreviewLoading => PendingForActive = {}

\* C27: after a click on an entry of the sidebar the active file is the file of
\* that entry.
C27_ClickedFileIsActive ==
  aLastEvent = "click" => ActiveOf(aFiles, aActiveIdx) = aClicked

\* C28: currentPlotIndex is an index of the displayed list of plots.
C28_IndexOfDisplayedList ==
  (qProps.mounted /\ DisplayedPlots # << >>) => qIndex \in 0..(Len(DisplayedPlots) - 1)

\* calls of navigate('/') made for reset id
NavCount(id) == Cardinality({i \in DOMAIN rNavs : rNavs[i] = id})

\* C29: every New search whose request has settled made one navigation to the
\* landing route, whatever the outcome, and a pending one none; resetting is
\* true exactly while the request is in flight and false afterwards; at most
\* one reset is in flight.
C29_OneNavigationPerReset ==
  /\ \A id \in 1..rResetSeq : NavCount(id) = IF id \in rResets THEN 0 ELSE 1
  /\ rMounted => (rResetting <=> rResets # {})
  /\ rLastEvent[1] = "resetDone" => (~rResetting /\ ~rMounted)
  /\ Cardinality(rResets) <= 1

\* a reset that got a non-OK status and navigated
C29_Witness ==
  /\ rLastEvent = <<"resetDone", "HTTP">>
  /\ rNavs = <<1>>

\* C30: a submit with an empty or whitespace-only query starts no request and
\* leaves loading false; while the page is mounted loading is true exactly
\* while a request is in flight; at most one request is in flight; the page
\* navigates to the results route only on an OK response, with its data.
C30_ExploreGate ==
  [][/\ (nLastEvent'[1] = "submit" /\ Trim(nQuery) = << >>) =>
          (nPending' = nPending /\ ~nLoading')
     /\ nRoute' = "/" => (nLoading' <=> nPending' # {})
     /\ Cardinality(nPending') <= 1
     /\ (nRoute' = "/results" /\ nRoute = "/") =>
          (nLastEvent'[1] = "responseOk" /\ nNavState' = nLastEvent'[2])]_vars

\* a whitespace-only submit that started nothing
C30_Witness ==
  /\ nLastEvent[1] = "submit"
  /\ nQuery = <<" ">>
  /\ nSeq = 0 /\ ~nLoading

====
